---- MODULE Spec2Model ----
(***************************************************************************)
(* A model of main.py of mandarin_bean_to_doc: the paragraph text          *)
(* reconstruction (MainArticleFetcher._paragraph_to_text), the vocabulary  *)
(* extraction (_soup_to_raw_lookup_list, _soup_to_word_list), the word     *)
(* list normalisation (ArticleTextCollection.sanitized_word_list), the     *)
(* two-column flow (DocumentWriter._fill_words_into_columns) and the       *)
(* per-article loop (Main._get_text_collection).                           *)
(*                                                                         *)
(* Strings are sequences of one-character strings, so that offsets,        *)
(* regular-expression matches and strip operations are computed on         *)
(* characters as Python computes them.                                     *)
(***************************************************************************)
EXTENDS Integers, Sequences, FiniteSets, TLC

VARIABLES
    \* MainArticleFetcher._soup_to_main_text / _paragraph_to_text
    paragraph,              \* the <p> tag: its annotations, separators, tail
    p_pc,                   \* "todo" before the paragraph is converted
    punctuation_indices,    \* the three dictionaries of _paragraph_to_text
    end_of_paragraph_indices,
    tr_indices,
    text,                   \* the value _paragraph_to_text returned
    main_paragraphs,        \* the texts _soup_to_main_text joins
    \* MainArticleFetcher._soup_to_raw_lookup_list / _soup_to_word_list
    word_tags,              \* soup.find_all("abbr", {"rel": "tooltip"})
    v_pc,                   \* "todo", then "returned" or "raised"
    lookup_list,            \* the list _soup_to_raw_lookup_list returned
    word_list,              \* the string _soup_to_word_list returned
    sanitized,              \* ArticleTextCollection.sanitized_word_list
    resanitized,            \* the same normalisation of the sanitized words
    \* Main._get_text_collection
    article_metadata,       \* the list of ArticleMetadata
    cache_exists,           \* FINAL_TEXT_JSON.exists()
    final_text_json,        \* the list FINAL_TEXT_JSON holds
    a_idx,                  \* number of articles the for loop has visited
    responses,              \* what the fetch of each visited article met
    final_json,             \* the list being built, then returned
    g_pc,                   \* "run", then "cached" or "done"
    \* DocumentWriter._fill_words_into_columns
    words,                  \* the word set, in its iteration order
    capacity,               \* the capacity of a column (MAX_WORDS_PER_COLUMN)
    idx,                    \* number of words the for loop has consumed
    pages,                  \* the tables of the document, each a pair of cells
    word_count_column_1,
    word_count_column_2

flowVars == <<words, capacity, idx, pages, word_count_column_1, word_count_column_2>>

paraVars == <<paragraph, p_pc, punctuation_indices, end_of_paragraph_indices,
              tr_indices, text, main_paragraphs>>

vocabVars == <<word_tags, v_pc, lookup_list, word_list, sanitized, resanitized>>

collectVars == <<article_metadata, cache_exists, final_text_json, a_idx, responses,
                 final_json, g_pc>>

vars == <<paraVars, vocabVars, collectVars, flowVars>>

(***************************************************************************)
(* Bounds                                                                  *)
(***************************************************************************)
MaxWords == 6
MaxCap == 2
MaxAnnotations == 2
MaxTags == 3
MaxArticles == 2

(***************************************************************************)
(* General helpers                                                         *)
(***************************************************************************)
Range(f) == {f[i] : i \in DOMAIN f}

SeqsUpTo(S, n) == UNION {[1..k -> S] : k \in 0..n}

IsInjective(f) == \A i, j \in DOMAIN f : f[i] = f[j] => i = j

SetMin(S) == CHOOSE x \in S : \A y \in S : x <= y

SetMax(S) == CHOOSE x \in S : \A y \in S : x >= y

\* a Python str as the sequence of its characters
Chars(str) == [i \in 1..Len(str) |-> SubSeq(str, i, i)]

RECURSIVE Flatten(_)
Flatten(qs) == IF qs = <<>> THEN <<>> ELSE Head(qs) \o Flatten(Tail(qs))

\* the literal lit occurs in s at index i
MatchAt(s, i, lit) ==
    /\ i >= 1
    /\ i + Len(lit) - 1 <= Len(s)
    /\ \A k \in 1..Len(lit) : s[i + k - 1] = lit[k]

Digits == {"0", "1", "2", "3", "4", "5", "6", "7", "8", "9"}

\* the characters the regular expression class \w matches
WordChars ==
    Range(Chars("abcdefghijklmnopqrstuvwxyzABCDEFGHIJKLMNOPQRSTUVWXYZ_")) \cup Digits

IsWordChar(c) == c \in WordChars

\* the characters str.strip() removes
Whitespace == {" ", "\t", "\n", "\r"}

(***************************************************************************)
(* The annotated markup (main.py 112-113) and str(paragraph)               *)
(***************************************************************************)
\* the value of a sub-element that select_one does not find; no text equals
\* it, a text being a sequence of single characters
None == <<"None">>

\* an <abbr rel="tooltip"> element: its title attribute and the texts of its
\* class "si" span, class "tr" span and <rt> element (None when absent)
AbbrMarkup(t) ==
    Chars("<abbr rel=\"tooltip\" title=\"") \o t.title \o Chars("\"><ruby>")
    \o Chars("<span class=\"si\">") \o t.si \o Chars("</span>")
    \o (IF t.tr = None THEN <<>>
        ELSE Chars("<span class=\"tr\">") \o t.tr \o Chars("</span>"))
    \o (IF t.rt = None THEN <<>> ELSE Chars("<rt>") \o t.rt \o Chars("</rt>"))
    \o Chars("</ruby></abbr>")

\* str(paragraph): the annotations, the text between them and the text after
\* the last one, inside <p> ... </p>
RECURSIVE InnerMarkup(_, _)
InnerMarkup(abbrs, seps) ==
    IF abbrs = <<>> THEN <<>>
    ELSE AbbrMarkup(Head(abbrs))
         \o (IF seps = <<>> THEN <<>> ELSE Head(seps))
         \o InnerMarkup(Tail(abbrs), IF seps = <<>> THEN <<>> ELSE Tail(seps))

ParagraphMarkup(p) ==
    Chars("<p>") \o InnerMarkup(p.abbrs, p.seps) \o p.tail \o Chars("</p>")

(***************************************************************************)
(* MainArticleFetcher._paragraph_to_text (main.py 84-108)                  *)
(* A dictionary is a function from offsets (0-based, as m.start(1)) to     *)
(* strings.                                                                *)
(***************************************************************************)
\* the least member of S that is >= pos; finditer takes the leftmost match
\* that starts at or after the end of the previous one
NextStart(S, pos) == SetMin({i \in S : i >= pos})

HasStart(S, pos) == \E i \in S : i >= pos

\* the indices at which "</abbr>(\W)<abbr" matches
PunctuationStarts(s) ==
    {i \in 1..Len(s) :
        /\ MatchAt(s, i, Chars("</abbr>"))
        /\ i + 7 <= Len(s)
        /\ ~IsWordChar(s[i + 7])
        /\ MatchAt(s, i + 8, Chars("<abbr"))}

\* re.finditer("</abbr>(\W)<abbr", s) from index pos: m.start(1) -> m.group(1)
RECURSIVE PunctuationMatches(_, _)
PunctuationMatches(s, pos) ==
    IF ~HasStart(PunctuationStarts(s), pos) THEN <<>>
    ELSE LET i == NextStart(PunctuationStarts(s), pos)
         IN  ((i + 6) :> <<s[i + 7]>>) @@ PunctuationMatches(s, i + 13)

\* the indices j >= from at which "</p>" starts with no newline in s[from..j-1]
ParagraphEnds(s, from) ==
    {j \in from..Len(s) :
        /\ MatchAt(s, j, Chars("</p>"))
        /\ \A k \in from..(j - 1) : s[k] # "\n"}

\* a variant whose pattern does not ask for a preceding "</abbr>": "(.*)</p>"
RECURSIVE EndOfParagraphMatchesAnywhere(_, _)
EndOfParagraphMatchesAnywhere(s, pos) ==
    LET starts == {i \in 1..Len(s) : ParagraphEnds(s, i) # {}}
    IN  IF ~HasStart(starts, pos) THEN <<>>
        ELSE LET i == NextStart(starts, pos)
                 j == SetMax(ParagraphEnds(s, i))
             IN  ((i - 1) :> SubSeq(s, i, j - 1))
                 @@ EndOfParagraphMatchesAnywhere(s, j + 4)

\* the indices at which "</abbr>(.*)</p>" matches: "." matches anything but a
\* newline
EndOfParagraphStarts(s) ==
    {i \in 1..Len(s) :
        MatchAt(s, i, Chars("</abbr>")) /\ ParagraphEnds(s, i + 7) # {}}

\* re.finditer("</abbr>(.*)</p>", s) from index pos; ".*" is greedy, so the
\* group runs to the last "</p>" it can reach
RECURSIVE EndOfParagraphMatches(_, _)
EndOfParagraphMatches(s, pos) ==
    IF ~HasStart(EndOfParagraphStarts(s), pos) THEN <<>>
    ELSE LET i == NextStart(EndOfParagraphStarts(s), pos)
             j == SetMax(ParagraphEnds(s, i + 7))
         IN  ((i + 6) :> SubSeq(s, i + 7, j - 1))
             @@ EndOfParagraphMatches(s, j + 4)

\* the index after the longest run of \w characters that starts at i
WordRunEnd(s, i) ==
    SetMin({j \in i..(Len(s) + 1) : j > Len(s) \/ ~IsWordChar(s[j])})

\* the indices at which '<span class="tr">(\w*)</span>' matches
TrStarts(s) ==
    {i \in 1..Len(s) :
        /\ MatchAt(s, i, Chars("<span class=\"tr\">"))
        /\ MatchAt(s, WordRunEnd(s, i + 17), Chars("</span>"))}

\* re.finditer(r'<span class="tr">(\w*)</span>', s) from index pos
RECURSIVE TrMatches(_, _)
TrMatches(s, pos) ==
    IF ~HasStart(TrStarts(s), pos) THEN <<>>
    ELSE LET i == NextStart(TrStarts(s), pos)
             e == WordRunEnd(s, i + 17)
         IN  ((i + 16) :> SubSeq(s, i + 17, e - 1)) @@ TrMatches(s, e + 7)

\* punctuation_indices | tr_indices | end_of_paragraph_indices: on a shared
\* key the right operand's value wins
CombinedIdx(punct, tr, end) == end @@ tr @@ punct

\* "".join(combined_idx[idx] for idx in sorted(combined_idx.keys()))
RECURSIVE JoinSorted(_)
JoinSorted(d) ==
    IF DOMAIN d = {} THEN <<>>
    ELSE LET m == SetMin(DOMAIN d)
         IN  d[m] \o JoinSorted([k \in DOMAIN d \ {m} |-> d[k]])

paragraph_to_text(punct, tr, end) == JoinSorted(CombinedIdx(punct, tr, end))

(***************************************************************************)
(* MainArticleFetcher._soup_to_main_text (main.py 80-82), one paragraph    *)
(***************************************************************************)
\* titles of one line and of two lines (pronunciation, then the gloss)
ParagraphTitles == {Chars("you"), Chars("ni\nyou")}

ParagraphAbbrs ==
    {[title |-> t, si |-> x, tr |-> x, rt |-> Chars("ni")] :
        t \in ParagraphTitles, x \in {Chars("x"), Chars("yz")}}

\* nothing or one non-word character between two adjacent annotations
Separators == {<<>>, Chars(",")}

\* the literal text after the last annotation
Tails == {<<>>, Chars("."), Chars("ok!"), Chars(".\n")}

Paragraphs ==
    {[abbrs |-> a, seps |-> sp, tail |-> tl] :
        a \in SeqsUpTo(ParagraphAbbrs, MaxAnnotations),
        sp \in SeqsUpTo(Separators, MaxAnnotations),
        tl \in Tails}

InitParagraph ==
    /\ paragraph \in {p \in Paragraphs :
                          Len(p.seps) = IF p.abbrs = <<>> THEN 0 ELSE Len(p.abbrs) - 1}
    /\ p_pc = "todo"
    /\ punctuation_indices = <<>>
    /\ end_of_paragraph_indices = <<>>
    /\ tr_indices = <<>>
    /\ text = <<>>
    /\ main_paragraphs = <<>>

\* the body of _paragraph_to_text on str(paragraph)
ParagraphToText ==
    LET s == ParagraphMarkup(paragraph)
    IN  /\ punctuation_indices' = PunctuationMatches(s, 1)
        /\ end_of_paragraph_indices' = EndOfParagraphMatches(s, 1)
        /\ tr_indices' = TrMatches(s, 1)
        /\ text' = paragraph_to_text(punctuation_indices', tr_indices',
                                     end_of_paragraph_indices')

\* the paragraph's text is not empty: it is one of the joined texts
KeepParagraph ==
    /\ p_pc = "todo"
    /\ ParagraphToText
    /\ text' # <<>>
    /\ main_paragraphs' = Append(main_paragraphs, text')
    /\ p_pc' = "done"
    /\ UNCHANGED paragraph
    /\ UNCHANGED <<vocabVars, collectVars, flowVars>>

\* the paragraph's text is empty: the filter of line 82 drops it
DropParagraph ==
    /\ p_pc = "todo"
    /\ ParagraphToText
    /\ text' = <<>>
    /\ main_paragraphs' = main_paragraphs
    /\ p_pc' = "done"
    /\ UNCHANGED paragraph
    /\ UNCHANGED <<vocabVars, collectVars, flowVars>>

NextParagraph == KeepParagraph \/ DropParagraph

(***************************************************************************)
(* MainArticleFetcher._soup_to_raw_lookup_list (main.py 110-136)           *)
(***************************************************************************)
MIN_HSK_LEVEL == 4

\* the character U+00A0 (non-breaking space)
NBSP == "nbsp"

\* title.split("\n")[-1]: the characters after the last newline
LastLine(title) ==
    LET nl == {i \in 1..Len(title) : title[i] = "\n"}
    IN  IF nl = {} THEN title ELSE SubSeq(title, SetMax(nl) + 1, Len(title))

\* the indices at which r"HSK(\d+)" matches
HskStarts(line) ==
    {i \in 1..Len(line) :
        /\ MatchAt(line, i, Chars("HSK"))
        /\ i + 3 <= Len(line)
        /\ line[i + 3] \in Digits}

\* the index after the longest run of digits that starts at i
DigitRunEnd(line, i) ==
    SetMin({j \in i..(Len(line) + 1) : j > Len(line) \/ line[j] \notin Digits})

DigitValue(c) ==
    CASE c = "0" -> 0 [] c = "1" -> 1 [] c = "2" -> 2 [] c = "3" -> 3 [] c = "4" -> 4
      [] c = "5" -> 5 [] c = "6" -> 6 [] c = "7" -> 7 [] c = "8" -> 8 [] c = "9" -> 9

\* int(digits)
RECURSIVE ToInt(_)
ToInt(digits) ==
    IF digits = <<>> THEN 0
    ELSE 10 * ToInt(SubSeq(digits, 1, Len(digits) - 1)) + DigitValue(digits[Len(digits)])

\* a variant that reads the first digit of the marker only
HskLevelFirstDigit(line) ==
    LET i == SetMin(HskStarts(line)) IN DigitValue(line[i + 3])

\* int(hsk_info[1]) for the first match of re.search(r"HSK(\d+)", line)
HskLevel(line) ==
    LET i == SetMin(HskStarts(line))
    IN  ToInt(SubSeq(line, i + 3, DigitRunEnd(line, i + 3) - 1))

\* lines 121-126: the word is skipped as easy
SkipsEasyWord(t) ==
    LET translation == LastLine(t.title)
    IN  HskStarts(translation) # {} /\ HskLevel(translation) < MIN_HSK_LEVEL

\* t.select_one(".tr").text or t.select_one("rt").text on a missing element:
\* AttributeError
RaisesOnTag(t) == ~SkipsEasyWord(t) /\ (t.tr = None \/ t.rt = None)

\* .replace("\xa0", " ")
ReplaceNbsp(str) == [i \in 1..Len(str) |-> IF str[i] = NBSP THEN " " ELSE str[i]]

\* (translation, pinyin, traditional_char) of line 134
LookupEntry(t) ==
    [translation |-> LastLine(t.title), pinyin |-> ReplaceNbsp(t.rt),
     traditional_char |-> t.tr]

\* the loop of lines 118-134 over the tags from the first on: the list it
\* returns, or raised when a tag made it raise
RECURSIVE soup_to_raw_lookup_list(_)
soup_to_raw_lookup_list(tags) ==
    IF tags = <<>> THEN [raised |-> FALSE, word_list |-> <<>>]
    ELSE IF SkipsEasyWord(Head(tags)) THEN soup_to_raw_lookup_list(Tail(tags))
    ELSE IF RaisesOnTag(Head(tags)) THEN [raised |-> TRUE, word_list |-> <<>>]
    ELSE LET rest == soup_to_raw_lookup_list(Tail(tags))
         IN  IF rest.raised THEN rest
             ELSE [rest EXCEPT !.word_list = <<LookupEntry(Head(tags))>> \o @]

(***************************************************************************)
(* MainArticleFetcher._soup_to_word_list (main.py 138-147)                 *)
(***************************************************************************)
LowerCase == Chars("abcdefghijklmnopqrstuvwxyz")

UpperCase == Chars("ABCDEFGHIJKLMNOPQRSTUVWXYZ")

IsLetter(c) == c \in Range(LowerCase) \cup Range(UpperCase)

LetterIndex(c) ==
    CHOOSE i \in 1..26 : LowerCase[i] = c \/ UpperCase[i] = c

\* str.title(): a letter that follows a letter is lower-cased, any other
\* letter is upper-cased
Title(str) ==
    [i \in 1..Len(str) |->
        IF ~IsLetter(str[i]) THEN str[i]
        ELSE IF i > 1 /\ IsLetter(str[i - 1]) THEN LowerCase[LetterIndex(str[i])]
        ELSE UpperCase[LetterIndex(str[i])]]

\* str.replace(old, new): the occurrences of old from index pos on, left to
\* right and not overlapping
RECURSIVE ReplaceFrom(_, _, _, _)
ReplaceFrom(str, old, new, pos) ==
    LET starts == {i \in pos..Len(str) : MatchAt(str, i, old)}
    IN  IF starts = {} THEN SubSeq(str, pos, Len(str))
        ELSE LET i == SetMin(starts)
             IN  SubSeq(str, pos, i - 1) \o new
                 \o ReplaceFrom(str, old, new, i + Len(old))

\* the text one entry adds to word_list: nothing when the translation
\* starts with "(", else f"{char} ({pinyin}): {translation}\n"
WordListLine(e) ==
    LET translation == ReplaceFrom(Title(e.translation), Chars("Hsk"), Chars("HSK"), 1)
    IN  IF MatchAt(translation, 1, Chars("(")) THEN <<>>
        ELSE e.traditional_char \o Chars(" (") \o e.pinyin \o Chars("): ")
             \o translation \o Chars("\n")

format_word_list(lookup) == Flatten([i \in 1..Len(lookup) |-> WordListLine(lookup[i])])

\* the annotation tags of a page
Tag(title, tr, rt) ==
    [title |-> Chars(title), si |-> Chars("s"),
     tr |-> IF tr = "" THEN None ELSE Chars(tr),
     rt |-> IF rt = "" THEN None ELSE Chars(rt)]

WellFormedTags ==
    { Tag("ni\nyou (HSK1)", "a", "ni"),
      Tag("moon (HSK4)", "b", "yue"),
      [Tag("sun", "c", "ri") EXCEPT !.rt = <<"r", NBSP, "i">>],
      Tag("art (HSK10)", "d", "yi"),
      Tag("HSK2\nfar", "e", "yuan"),
      Tag("(HSK5) pattern", "f", "ba"),
      Tag("HSK or HSK3", "g", "huo") }

MalformedTags ==
    { Tag("ni\nyou (HSK1)", "", "ni"),
      Tag("moon (HSK4)", "", "yue"),
      Tag("sun", "c", "") }

Tags == WellFormedTags \cup MalformedTags

InitVocab ==
    /\ word_tags \in SeqsUpTo(Tags, MaxTags)
    /\ v_pc = "todo"
    /\ lookup_list = <<>>
    /\ word_list = <<>>
    /\ sanitized = {}
    /\ resanitized = {}

\* _soup_to_word_list returns: the lookup list was built and formatted
WordListReturns ==
    /\ v_pc = "todo"
    /\ ~soup_to_raw_lookup_list(word_tags).raised
    /\ lookup_list' = soup_to_raw_lookup_list(word_tags).word_list
    /\ word_list' = format_word_list(lookup_list')
    /\ v_pc' = "returned"
    /\ UNCHANGED <<word_tags, sanitized, resanitized>>
    /\ UNCHANGED <<paraVars, collectVars, flowVars>>

\* _soup_to_raw_lookup_list raised: nothing is returned
WordListRaises ==
    /\ v_pc = "todo"
    /\ soup_to_raw_lookup_list(word_tags).raised
    /\ v_pc' = "raised"
    /\ UNCHANGED <<word_tags, lookup_list, word_list, sanitized, resanitized>>
    /\ UNCHANGED <<paraVars, collectVars, flowVars>>

(***************************************************************************)
(* ArticleTextCollection.sanitized_word_list (main.py 56-62)               *)
(***************************************************************************)
\* set(str.split("\n")): the texts between consecutive newlines
SplitLines(str) ==
    LET cuts == {0, Len(str) + 1} \cup {i \in 1..Len(str) : str[i] = "\n"}
    IN  {SubSeq(str, a + 1, SetMin({c \in cuts : c > a}) - 1) :
            a \in cuts \ {Len(str) + 1}}

\* str.lstrip(chars)
LStrip(str, chars) ==
    LET keep == {i \in 1..Len(str) : str[i] \notin chars}
    IN  IF keep = {} THEN <<>> ELSE SubSeq(str, SetMin(keep), Len(str))

\* str.rstrip(chars)
RStrip(str, chars) ==
    LET keep == {i \in 1..Len(str) : str[i] \notin chars}
    IN  IF keep = {} THEN <<>> ELSE SubSeq(str, 1, SetMax(keep))

\* str.strip()
Strip(str) == LStrip(RStrip(str, Whitespace), Whitespace)

\* the indices at which r"\(HSK\d+\)" matches
HskTagStarts(w) ==
    {i \in 1..Len(w) :
        /\ MatchAt(w, i, Chars("(HSK"))
        /\ i + 4 <= Len(w)
        /\ w[i + 4] \in Digits
        /\ MatchAt(w, DigitRunEnd(w, i + 4), Chars(")"))}

\* re.sub(r"\(HSK\d+\)", "", w) from index pos on
RECURSIVE RemoveHskTags(_, _)
RemoveHskTags(w, pos) ==
    IF ~HasStart(HskTagStarts(w), pos) THEN SubSeq(w, pos, Len(w))
    ELSE LET i == NextStart(HskTagStarts(w), pos)
         IN  SubSeq(w, pos, i - 1) \o RemoveHskTags(w, DigitRunEnd(w, i + 4) + 1)

\* w.lstrip("\n").rstrip('"n').strip()
Trim(w) == Strip(RStrip(LStrip(w, {"\n"}), {"\"", "n"}))

\* lines 59-62 on the set of lines
Sanitize(lines) ==
    {RemoveHskTags(Trim(w), 1) : w \in {l \in lines : l # <<>>}}

sanitized_word_list(str) == Sanitize(SplitLines(str))

\* text.sanitized_word_list is read from the collection
ReadSanitized ==
    /\ v_pc = "returned"
    /\ sanitized' = sanitized_word_list(word_list)
    /\ v_pc' = "sanitized"
    /\ UNCHANGED <<word_tags, lookup_list, word_list, resanitized>>
    /\ UNCHANGED <<paraVars, collectVars, flowVars>>

\* the normalisation of lines 59-62 is applied to the words it returned
SanitizeAgain ==
    /\ v_pc = "sanitized"
    /\ resanitized' = Sanitize(sanitized)
    /\ v_pc' = "resanitized"
    /\ UNCHANGED <<word_tags, lookup_list, word_list, sanitized>>
    /\ UNCHANGED <<paraVars, collectVars, flowVars>>

NextVocab == WordListReturns \/ WordListRaises \/ ReadSanitized \/ SanitizeAgain

(***************************************************************************)
(* MainArticleFetcher.__call__ (main.py 71-78)                             *)
(***************************************************************************)
\* "\n".join(texts)
RECURSIVE JoinLines(_)
JoinLines(texts) ==
    IF texts = <<>> THEN <<>>
    ELSE IF Len(texts) = 1 THEN Head(texts)
    ELSE Head(texts) \o Chars("\n") \o JoinLines(Tail(texts))

\* _paragraph_to_text(p) as a value
ParagraphText(p) ==
    LET s == ParagraphMarkup(p)
    IN  paragraph_to_text(PunctuationMatches(s, 1), TrMatches(s, 1),
                          EndOfParagraphMatches(s, 1))

\* _soup_to_main_text: the non-empty paragraph texts, joined
soup_to_main_text(soup) ==
    JoinLines(SelectSeq([i \in 1..Len(soup) |-> ParagraphText(soup[i])],
                        LAMBDA t : t # <<>>))

\* soup.find_all("abbr", {"rel": "tooltip"}): the tags of all paragraphs
SoupTags(soup) == Flatten([i \in 1..Len(soup) |-> soup[i].abbrs])

\* what fetcher(url) does on the page: it raises, or returns the two texts
Fetcher(soup) ==
    LET lookup == soup_to_raw_lookup_list(SoupTags(soup))
    IN  [raised |-> lookup.raised,
         main_text |-> soup_to_main_text(soup),
         word_list |-> format_word_list(lookup.word_list)]

(***************************************************************************)
(* Main._get_text_collection (main.py 241-275)                             *)
(***************************************************************************)
ArticleMetadata(n) ==
    [title |-> <<"title", n>>, chinese_title |-> <<"chinese_title", n>>,
     url |-> <<"url", n>>, tags |-> <<"tags", n>>, hsk_tag |-> <<"hsk_tag", n>>]

\* lines 256-264
ArticleTextCollection(article, main_text, wl) ==
    [title |-> article.title, chinese_title |-> article.chinese_title,
     url |-> article.url, tags |-> article.tags, hsk_tag |-> article.hsk_tag,
     main_text |-> main_text, word_list |-> wl]

\* the pages a fetch may return, each the sequence of its paragraphs
Soups ==
    { <<>>,
      << [abbrs |-> <<Tag("ni\nmoon (HSK4)", "b", "yue"), Tag("yi\nart (HSK10)", "d", "yi")>>,
          seps |-> <<Chars(",")>>, tail |-> Chars(".")] >>,
      << [abbrs |-> <<Tag("moon (HSK4)", "", "yue"), Tag("art (HSK10)", "d", "yi")>>,
          seps |-> <<Chars(",")>>, tail |-> Chars(".")] >>,
      << [abbrs |-> <<Tag("ni\nyou (HSK1)", "", "ni")>>, seps |-> <<>>, tail |-> <<>>],
         [abbrs |-> <<Tag("sun", "c", "ri")>>, seps |-> <<>>, tail |-> Chars("!")] >>,
      << [abbrs |-> <<Tag("art (HSK10)", "d", "yi"), Tag("sun", "c", "")>>,
          seps |-> <<<<>>>>, tail |-> <<>>] >> }

InitCollect ==
    /\ article_metadata \in
          {[i \in DOMAIN q |-> ArticleMetadata(q[i])] :
              q \in {r \in SeqsUpTo(1..MaxArticles, MaxArticles) : IsInjective(r)}}
    /\ cache_exists \in BOOLEAN
    /\ final_text_json =
          IF cache_exists
          THEN <<ArticleTextCollection(ArticleMetadata(0), Chars("x"), <<>>)>>
          ELSE <<>>
    /\ a_idx = 0
    /\ responses = <<>>
    /\ final_json = <<>>
    /\ g_pc = "run"

\* lines 244-246: the cached collection is returned
LoadCache ==
    /\ g_pc = "run"
    /\ cache_exists
    /\ final_json' = final_text_json
    /\ g_pc' = "cached"
    /\ UNCHANGED <<article_metadata, cache_exists, final_text_json, a_idx, responses>>
    /\ UNCHANGED <<paraVars, vocabVars, flowVars>>

\* a variant in which a failed fetch ends the loop
FetchRaisesAndStops ==
    /\ g_pc = "run"
    /\ ~cache_exists
    /\ a_idx < Len(article_metadata)
    /\ responses' = Append(responses, [error |-> TRUE, soup |-> <<>>])
    /\ a_idx' = Len(article_metadata)
    /\ UNCHANGED <<article_metadata, cache_exists, final_text_json, final_json, g_pc>>
    /\ UNCHANGED <<paraVars, vocabVars, flowVars>>

\* requests.get raises for the article: except Exception: continue
FetchRaises ==
    /\ g_pc = "run"
    /\ ~cache_exists
    /\ a_idx < Len(article_metadata)
    /\ responses' = Append(responses, [error |-> TRUE, soup |-> <<>>])
    /\ a_idx' = a_idx + 1
    /\ UNCHANGED <<article_metadata, cache_exists, final_text_json, final_json, g_pc>>
    /\ UNCHANGED <<paraVars, vocabVars, flowVars>>

\* the page is fetched and its extraction raises: except Exception: continue
ExtractionRaises ==
    /\ g_pc = "run"
    /\ ~cache_exists
    /\ a_idx < Len(article_metadata)
    /\ \E soup \in Soups :
          /\ Fetcher(soup).raised
          /\ responses' = Append(responses, [error |-> FALSE, soup |-> soup])
    /\ a_idx' = a_idx + 1
    /\ UNCHANGED <<article_metadata, cache_exists, final_text_json, final_json, g_pc>>
    /\ UNCHANGED <<paraVars, vocabVars, flowVars>>

\* the fetcher returns: lines 255-265 append the article's collection
AppendCollection ==
    /\ g_pc = "run"
    /\ ~cache_exists
    /\ a_idx < Len(article_metadata)
    /\ \E soup \in Soups :
          /\ ~Fetcher(soup).raised
          /\ responses' = Append(responses, [error |-> FALSE, soup |-> soup])
          /\ final_json' =
                Append(final_json,
                       ArticleTextCollection(article_metadata[a_idx + 1],
                                             Fetcher(soup).main_text,
                                             Fetcher(soup).word_list))
    /\ a_idx' = a_idx + 1
    /\ UNCHANGED <<article_metadata, cache_exists, final_text_json, g_pc>>
    /\ UNCHANGED <<paraVars, vocabVars, flowVars>>

\* lines 267-275: the list is written to FINAL_TEXT_JSON and returned
WriteFinalJson ==
    /\ g_pc = "run"
    /\ ~cache_exists
    /\ a_idx = Len(article_metadata)
    /\ final_text_json' = final_json
    /\ cache_exists' = TRUE
    /\ g_pc' = "done"
    /\ UNCHANGED <<article_metadata, a_idx, responses, final_json>>
    /\ UNCHANGED <<paraVars, vocabVars, flowVars>>

NextCollect ==
    LoadCache \/ FetchRaises \/ ExtractionRaises \/ AppendCollection \/ WriteFinalJson

(***************************************************************************)
(* DocumentWriter._fill_words_into_columns (main.py 201-224)               *)
(***************************************************************************)
MAX_WORDS_PER_COLUMN == 17

Vocab == {Chars("a"), Chars("b"), Chars("c"), Chars("d"), Chars("e"), Chars("f"),
          Chars("g")}

\* doc.add_table(rows=1, cols=2): a table of one row with two empty cells
add_table == [column_1 |-> <<>>, column_2 |-> <<>>]

\* a Python set of strings iterates its distinct members in some order
WordSets == {w \in SeqsUpTo(Vocab, MaxWords) : IsInjective(w)}

\* a word set that overflows two columns of MAX_WORDS_PER_COLUMN entries
LongWordSet ==
    [i \in 1..(2 * MAX_WORDS_PER_COLUMN + 2) |->
        <<"w", Chars("0123456789")[(i \div 10) + 1], Chars("0123456789")[(i % 10) + 1]>>]

\* the state when _add_page_to_doc calls _fill_words_into_columns: the
\* capacity is the module's constant, or a small value in its place
InitFlow ==
    /\ \/ words \in WordSets /\ capacity \in 1..MaxCap
       \/ words = LongWordSet /\ capacity = MAX_WORDS_PER_COLUMN
    /\ idx = 0
    /\ pages = <<add_table>>
    /\ word_count_column_1 = 0
    /\ word_count_column_2 = 0

\* cells[0].text += word + "\n"  on the current table
AppendCell1(word) ==
    [pages EXCEPT ![Len(pages)].column_1 = Append(@, word)]

\* a variant that puts the word in front of the second cell's text
AppendCell2Front(word) ==
    [pages EXCEPT ![Len(pages)].column_2 = <<word>> \o @]

\* cells[1].text += word + "\n"  on the current table
AppendCell2(word) ==
    [pages EXCEPT ![Len(pages)].column_2 = Append(@, word)]

\* a variant that opens the new table and forgets the current word
NewTableNoWord(word) == Append(pages, add_table)

\* doc.add_page_break(); doc.add_table(...); cells[0].text += word + "\n"
NewTableWith(word) ==
    Append(pages, [add_table EXCEPT !.column_1 = Append(@, word)])

\* the branch of line 210
FillColumn1 ==
    /\ idx < Len(words)
    /\ word_count_column_1 < capacity
    /\ pages' = AppendCell1(words[idx + 1])
    /\ word_count_column_1' = word_count_column_1 + 1
    /\ idx' = idx + 1
    /\ UNCHANGED <<words, capacity, word_count_column_2>>
    /\ UNCHANGED <<paraVars, vocabVars, collectVars>>

\* a variant that opens the next table as soon as the second cell is full
FillColumn2Eager ==
    /\ idx < Len(words)
    /\ ~(word_count_column_1 < capacity)
    /\ word_count_column_2 < capacity
    /\ pages' = IF word_count_column_2 + 1 = capacity
                THEN Append(AppendCell2(words[idx + 1]), add_table)
                ELSE AppendCell2(words[idx + 1])
    /\ word_count_column_2' = word_count_column_2 + 1
    /\ idx' = idx + 1
    /\ UNCHANGED <<words, capacity, word_count_column_1>>
    /\ UNCHANGED <<paraVars, vocabVars, collectVars>>

\* the branch of line 213
FillColumn2 ==
    /\ idx < Len(words)
    /\ ~(word_count_column_1 < capacity)
    /\ word_count_column_2 < capacity
    /\ pages' = AppendCell2(words[idx + 1])
    /\ word_count_column_2' = word_count_column_2 + 1
    /\ idx' = idx + 1
    /\ UNCHANGED <<words, capacity, word_count_column_1>>
    /\ UNCHANGED <<paraVars, vocabVars, collectVars>>

\* the branch of line 216
FillNewPage ==
    /\ idx < Len(words)
    /\ ~(word_count_column_1 < capacity)
    /\ ~(word_count_column_2 < capacity)
    /\ pages' = NewTableWith(words[idx + 1])
    /\ word_count_column_1' = 1
    /\ word_count_column_2' = 0
    /\ idx' = idx + 1
    /\ UNCHANGED <<words, capacity>>
    /\ UNCHANGED <<paraVars, vocabVars, collectVars>>

NextFlow == FillColumn1 \/ FillColumn2 \/ FillNewPage

(***************************************************************************)
(* Idle values of the variables a specification does not use               *)
(***************************************************************************)
IdleParagraph ==
    /\ paragraph = [abbrs |-> <<>>, seps |-> <<>>, tail |-> <<>>]
    /\ p_pc = "idle"
    /\ punctuation_indices = <<>>
    /\ end_of_paragraph_indices = <<>>
    /\ tr_indices = <<>>
    /\ text = <<>>
    /\ main_paragraphs = <<>>

IdleVocab ==
    /\ word_tags = <<>>
    /\ v_pc = "idle"
    /\ lookup_list = <<>>
    /\ word_list = <<>>
    /\ sanitized = {}
    /\ resanitized = {}

IdleCollect ==
    /\ article_metadata = <<>>
    /\ cache_exists = FALSE
    /\ final_text_json = <<>>
    /\ a_idx = 0
    /\ responses = <<>>
    /\ final_json = <<>>
    /\ g_pc = "idle"

IdleFlow ==
    /\ words = <<>>
    /\ capacity = 1
    /\ idx = 0
    /\ pages = <<>>
    /\ word_count_column_1 = 0
    /\ word_count_column_2 = 0

(***************************************************************************)
(* Specifications: one per part of the program                             *)
(***************************************************************************)
StartParagraph == InitParagraph /\ IdleVocab /\ IdleCollect /\ IdleFlow

SpecParagraph == StartParagraph /\ [][NextParagraph]_vars

StartVocab == IdleParagraph /\ InitVocab /\ IdleCollect /\ IdleFlow

SpecVocab == StartVocab /\ [][NextVocab]_vars

StartCollect == IdleParagraph /\ IdleVocab /\ InitCollect /\ IdleFlow

SpecCollect == StartCollect /\ [][NextCollect]_vars

StartFlow == IdleParagraph /\ IdleVocab /\ IdleCollect /\ InitFlow

SpecFlow == StartFlow /\ [][NextFlow]_vars

(***************************************************************************)
(* Properties of the flow pass                                             *)
(***************************************************************************)
\* every entry of every cell of every table, in document order
RECURSIVE AllEntries(_)
AllEntries(ps) ==
    IF ps = <<>> THEN <<>>
    ELSE Head(ps).column_1 \o Head(ps).column_2 \o AllEntries(Tail(ps))

Occurrences(q, x) == Cardinality({i \in DOMAIN q : q[i] = x})

\* C1: after any prefix of the words has been consumed no column of any page
\* holds more than the capacity, every consumed word sits in exactly one
\* place of the layout, nothing else does, and so the number of entries
\* equals the number of consumed words (all the words at the end).
C1_ColumnsBoundedWordsPlacedOnce ==
    /\ \A p \in DOMAIN pages :
          /\ Len(pages[p].column_1) <= capacity
          /\ Len(pages[p].column_2) <= capacity
    /\ \A k \in 1..idx : Occurrences(AllEntries(pages), words[k]) = 1
    /\ \A k \in (idx + 1)..Len(words) :
          Occurrences(AllEntries(pages), words[k]) = 0
    /\ Len(AllEntries(pages)) = idx

C1_Witness ==
    /\ idx = Len(words)
    /\ idx >= 5
    /\ Len(pages) >= 2
    /\ Len(pages[1].column_2) = capacity

ExampleWords == <<Chars("a"), Chars("b"), Chars("c"), Chars("d"), Chars("e")>>

\* C2: the k-th consumed word (0-based) is on page k \div 2C, in column 1
\* when k % 2C < C and in column 2 otherwise, at position k % C; after a
\* word opened a new page the counters are (1, 0); capacity 2 and the
\* words a,b,c,d,e give ([a,b],[c,d]) and ([e],[]).
C2_PlacementInIterationOrder ==
    /\ \A k \in 0..(idx - 1) :
          LET p == k \div (2 * capacity) + 1
              r == k % (2 * capacity)
              col == IF r < capacity THEN pages[p].column_1 ELSE pages[p].column_2
          IN  /\ p \in DOMAIN pages
              /\ (k % capacity) + 1 \in DOMAIN col
              /\ col[(k % capacity) + 1] = words[k + 1]
    /\ (idx > 1 /\ (idx - 1) % (2 * capacity) = 0) =>
          (word_count_column_1 = 1 /\ word_count_column_2 = 0)
    /\ (capacity = 2 /\ words = ExampleWords /\ idx = 5) =>
          pages = << [column_1 |-> <<Chars("a"), Chars("b")>>,
                      column_2 |-> <<Chars("c"), Chars("d")>>],
                     [column_1 |-> <<Chars("e")>>, column_2 |-> <<>>] >>

C2_Witness ==
    /\ capacity = 2
    /\ words = ExampleWords
    /\ idx = 5
    /\ Len(pages) = 2

\* C9 as stated: right after the word that fills column 2 (the 2C-th word of
\* a page) a new page exists, whether or not a further word follows.
C9_NewPageTheInstantBothFull ==
    (idx > 0 /\ idx % (2 * capacity) = 0) =>
        Len(pages) = idx \div (2 * capacity) + 1

\* C9 amended: a new page is opened only when a word is consumed while both
\* columns are full; after the 2C-th word of a page the last page is that
\* full page, and the page count is ceil(consumed / 2C) (1 before any word).
C9_NewPageOnlyWithNextWord ==
    /\ Len(pages) = IF idx = 0 THEN 1 ELSE (idx - 1) \div (2 * capacity) + 1
    /\ (idx > 0 /\ idx % (2 * capacity) = 0) =>
          /\ Len(pages[Len(pages)].column_1) = capacity
          /\ Len(pages[Len(pages)].column_2) = capacity

C9_Witness ==
    /\ idx = 2 * capacity
    /\ idx = Len(words)
    /\ Len(pages) = 1

(***************************************************************************)
(* Properties of the paragraph reconstruction                              *)
(***************************************************************************)
\* the span texts, the characters between annotations and the trailing
\* text, in the order they occur in the markup
RECURSIVE FragmentsInOrder(_, _)
FragmentsInOrder(abbrs, seps) ==
    IF abbrs = <<>> THEN <<>>
    ELSE Head(abbrs).tr
         \o (IF seps = <<>> THEN <<>> ELSE Head(seps))
         \o FragmentsInOrder(Tail(abbrs), IF seps = <<>> THEN <<>> ELSE Tail(seps))

\* C3: for a paragraph made of annotations, single non-word characters
\* between adjacent annotations and literal text after the last one, the
\* returned text is exactly the span texts, the in-between characters and
\* the trailing text in markup order.
\* (Stated for trailing text of one line, where the claim's own example lies.)
C3_ReconstructConcatenatesFragments ==
    (p_pc = "done" /\ paragraph.abbrs # <<>> /\ "\n" \notin Range(paragraph.tail)) =>
        text = FragmentsInOrder(paragraph.abbrs, paragraph.seps) \o paragraph.tail

\* C4 as stated: a paragraph with no annotation and a non-empty literal
\* text is returned as exactly that text, and kept.
C4_PlainTextReturned ==
    (p_pc = "done" /\ paragraph.abbrs = <<>> /\ paragraph.tail # <<>>) =>
        (text = paragraph.tail /\ main_paragraphs = <<paragraph.tail>>)

\* C4 amended: a paragraph with no annotation yields the empty string,
\* whatever its literal text, and is dropped from the main text.
C4_PlainTextDropped ==
    (p_pc = "done" /\ paragraph.abbrs = <<>>) =>
        (text = <<>> /\ main_paragraphs = <<>>)

C4_Witness ==
    /\ p_pc = "done"
    /\ paragraph.abbrs = <<>>
    /\ paragraph.tail = Chars("ok!")
    /\ end_of_paragraph_indices = <<>>

\* C10: the trailing fragment is exactly the text between the last
\* annotation's close and the paragraph's end, and no two fragments of
\* different categories start at the same offset.
C10_FragmentsMutuallyExclusive ==
    p_pc = "done" =>
        /\ \A k \in DOMAIN end_of_paragraph_indices :
              end_of_paragraph_indices[k] = paragraph.tail
        /\ DOMAIN punctuation_indices \cap DOMAIN tr_indices = {}
        /\ DOMAIN punctuation_indices \cap DOMAIN end_of_paragraph_indices = {}
        /\ DOMAIN tr_indices \cap DOMAIN end_of_paragraph_indices = {}

(***************************************************************************)
(* Properties of the vocabulary extraction and normalisation               *)
(***************************************************************************)
RECURSIVE SumSeq(_)
SumSeq(q) == IF q = <<>> THEN 0 ELSE Head(q) + SumSeq(Tail(q))

\* the number a run of decimal digits denotes
DecimalValue(digits) ==
    SumSeq([k \in 1..Len(digits) |->
               (CHOOSE d \in 0..9 : Chars("0123456789")[d + 1] = digits[k])
               * 10 ^ (Len(digits) - k)])

\* the level of the first HSK<digits> marker of a line, -1 without marker
MarkerLevel(line) ==
    LET at == {i \in 1..(Len(line) - 3) :
                  /\ SubSeq(line, i, i + 2) = Chars("HSK")
                  /\ line[i + 3] \in Digits}
    IN  IF at = {} THEN -1
        ELSE LET i == SetMin(at)
                 run == {j \in (i + 3)..Len(line) :
                            \A k \in (i + 3)..j : line[k] \in Digits}
             IN  DecimalValue(SubSeq(line, i + 3, SetMax(run)))

\* no parsable marker on the last line of the title, or a level >= minimum
LevelEligible(t) ==
    LET level == MarkerLevel(LastLine(t.title))
    IN  level = -1 \/ level >= MIN_HSK_LEVEL

\* C5: the returned list holds, in document order and with repetitions,
\* exactly the annotated words without parsable marker or with a level >=
\* the minimum; a word of level 2 is never in it.
C5_LevelFilterInDocumentOrder ==
    v_pc \in {"returned", "sanitized", "resanitized"} =>
        /\ LET kept == SelectSeq(word_tags, LevelEligible)
           IN  lookup_list =
                   [i \in 1..Len(kept) |->
                       [translation |-> LastLine(kept[i].title),
                        pinyin |-> ReplaceNbsp(kept[i].rt),
                        traditional_char |-> kept[i].tr]]
        /\ \A i \in 1..Len(lookup_list) :
              MarkerLevel(lookup_list[i].translation) \notin 0..(MIN_HSK_LEVEL - 1)

C5_Witness ==
    /\ v_pc = "returned"
    /\ Len(word_tags) = 3
    /\ \E i \in 1..3 : MarkerLevel(LastLine(word_tags[i].title)) = 1
    /\ Len(lookup_list) = 2
    /\ lookup_list[1] = lookup_list[2]
    /\ MarkerLevel(lookup_list[1].translation) = 10

\* C8: the normalisation of the word set is idempotent: applied to its own
\* output it returns the same set.
C8_SanitizeIdempotent ==
    v_pc = "resanitized" => resanitized = sanitized

(***************************************************************************)
(* Properties of the per-article loop                                      *)
(***************************************************************************)
WellFormed(t) == t.tr # None /\ t.rt # None

\* the word list of a page when only its malformed entries are skipped
WordListOfWellFormed(soup) ==
    LET kept == SelectSeq(SoupTags(soup), LAMBDA t : WellFormed(t) /\ LevelEligible(t))
    IN  format_word_list([i \in 1..Len(kept) |-> LookupEntry(kept[i])])

\* C6: an annotation that lacks a sub-span does not abort the extraction of
\* its page: every fetched page's article is in the collection, with the
\* page's main text and with every well-formed, level-eligible word.
C6_MalformedAnnotationSkippedLocally ==
    g_pc = "done" =>
        \A i \in 1..Len(responses) :
            ~responses[i].error =>
                \E k \in 1..Len(final_json) :
                    /\ final_json[k].url = article_metadata[i].url
                    /\ final_json[k].main_text = soup_to_main_text(responses[i].soup)
                    /\ final_json[k].word_list = WordListOfWellFormed(responses[i].soup)

\* the fetch of the i-th visited article returned: the request did not fail
\* and no level-eligible annotation of the page lacks a sub-span
Succeeded(i) ==
    /\ ~responses[i].error
    /\ \A t \in Range(SoupTags(responses[i].soup)) : LevelEligible(t) => WellFormed(t)

\* the complete entries of the visited articles that succeeded, in order
RECURSIVE EntriesOfSucceeded(_)
EntriesOfSucceeded(n) ==
    IF n = 0 THEN <<>>
    ELSE IF Succeeded(n)
         THEN Append(EntriesOfSucceeded(n - 1),
                     [title |-> article_metadata[n].title,
                      chinese_title |-> article_metadata[n].chinese_title,
                      url |-> article_metadata[n].url,
                      tags |-> article_metadata[n].tags,
                      hsk_tag |-> article_metadata[n].hsk_tag,
                      main_text |-> soup_to_main_text(responses[n].soup),
                      word_list |-> WordListOfWellFormed(responses[n].soup)])
         ELSE EntriesOfSucceeded(n - 1)

\* C7: whichever articles fail, the loop visits every article, and the
\* collection holds exactly one complete entry per article that succeeded,
\* none for an article that failed, in the order of the article list.
C7_FetchFailureIsolated ==
    g_pc \in {"run", "done"} =>
        /\ Len(responses) = a_idx
        /\ final_json = EntriesOfSucceeded(a_idx)
        /\ g_pc = "done" =>
              (a_idx = Len(article_metadata) /\ final_text_json = final_json)

C7_Witness ==
    /\ g_pc = "done"
    /\ Len(article_metadata) = 2
    /\ responses[1].error
    /\ ~responses[2].error
    /\ Len(final_json) = 1
    /\ final_json[1].url = article_metadata[2].url

====
